---- MODULE Spec2Model ----
(***************************************************************************)
(* A model of ppci's SSA intermediate representation (src/ppci/ir.py):     *)
(* the def-use graph between instructions and values, the instruction      *)
(* sequences of blocks (FastList), the terminators with their target maps, *)
(* the block list of a Function with its cache and its name table, the     *)
(* function and variable lists of a Module, and the dominance query.       *)
(*                                                                         *)
(* Every method of ir.py is an operator that maps a heap record (one field *)
(* per attribute of the objects, plus "ok") to the heap after the call.    *)
(* A raised exception (a failed assert, a KeyError, an AttributeError ...) *)
(* clears "ok"; every later statement of the same call is then skipped,    *)
(* and what was written before the exception stays written, as in Python.  *)
(* An action is one call of a method from outside: it commits the heap the *)
(* call leaves (also when it raised) and records the call in "last".       *)
(***************************************************************************)
EXTENDS Integers, Sequences, FiniteSets, TLC

\* ---------------------------------------------------------------- bounds
NumConsts == 2      \* Const values that can be operands
NumBlocks == 2      \* ordinary blocks besides entry and epilog
NumJumps == 2       \* Jump instructions
MaxLen == 4         \* cap of the length of a FastList driven directly
MaxCounter == 2     \* cap of Function.unique_counter (unbounded in the code)

\* --------------------------------------------------------------- objects
\* An object is <<kind, number>>; Kind(i) stands for type(i).
None == <<"None", 0>>
Kind(i) == i[1]

Consts == {<<"Const", k>> : k \in 1..NumConsts}
Binops == {<<"Binop", 1>>}
Calls == {<<"Call", 1>>}
Phis == {<<"Phi", 1>>}
Jumps == {<<"Jump", k>> : k \in 1..NumJumps}
CJumps == {<<"CJump", 1>>}
Variables == {<<"Variable", 1>>}
Parameters == {<<"Parameter", 1>>}
Modules == {<<"Module", 1>>, <<"Module", 2>>}
Terminators == {<<"Terminator", 0>>}

\* class Value(Instruction) and its subclasses
Values == Consts \cup Binops \cup Calls \cup Phis \cup Variables \cup Parameters
\* class LastStatement(Instruction) and its subclasses
LastStatements == Jumps \cup CJumps \cup Terminators
Insts == Values \cup LastStatements

entry == <<"entry", 0>>
epiloog == <<"epilog", 0>>
Ordinary == {<<"B", k>> : k \in 1..NumBlocks}
Blocks == {entry, epiloog} \cup Ordinary

\* The one Function of the model.
Fn == <<"Function", 0>>

\* The attribute names var_use() is instantiated with, in the order the
\* constructor assigns them (the insertion order of the var_map dict).
RoleNames(i) ==
    CASE Kind(i) = "Binop" -> <<"a", "b">>
      [] Kind(i) = "CJump" -> <<"a", "b">>
      [] OTHER -> <<>>

\* The attribute names block_ref() is instantiated with.
TargetNames(i) ==
    CASE Kind(i) = "Jump" -> {"target"}
      [] Kind(i) = "CJump" -> {"lab_yes", "lab_no"}
      [] OTHER -> {}

\* ----------------------------------------------------------------- state
VARIABLES
    made,              \* the instructions constructed so far
    var_map,           \* Instruction.var_map: the values of the named slots, in dict order
    uses,              \* Instruction.uses
    used_by,           \* Value.used_by
    arguments,         \* Call.arguments
    inputs,            \* Phi.inputs: the dict as a sequence of <<block, value>>
    parent,            \* Instruction.parent
    instructions,      \* Block.instructions._items
    index_map,         \* Block.instructions._index_map: a set of <<item, position>>
    block_map,         \* LastStatement.block_map: the dict as a sequence of <<name, block>>
    preds,             \* Block._preds
    extra_successors,  \* Block.extra_successors
    extra_preds,       \* Block.extra_preds
    function,          \* Block.function
    blocks,            \* Function._blocks: <<>> for None, else <<the list>>
    defined_names,     \* Function.defined_names: a set of <<name, object>>
    unique_counter,    \* Function.unique_counter
    name,              \* the name attribute of blocks and values
    functions,         \* Module.functions
    variables,         \* Module.variables
    module,            \* the module attribute of a Function or a Variable
    num,               \* Parameter.num
    last               \* the last call made, and what it returned

vars == <<made, var_map, uses, used_by, arguments, inputs, parent, instructions,
          index_map, block_map, preds, extra_successors, extra_preds, function,
          blocks, defined_names, unique_counter, name, functions, variables,
          module, num, last>>

\* The heap a call starts from.
Heap ==
    [made |-> made, var_map |-> var_map, uses |-> uses, used_by |-> used_by,
     arguments |-> arguments, inputs |-> inputs, parent |-> parent,
     instructions |-> instructions, index_map |-> index_map,
     block_map |-> block_map, preds |-> preds, function |-> function,
     blocks |-> blocks, defined_names |-> defined_names,
     unique_counter |-> unique_counter, name |-> name,
     functions |-> functions, variables |-> variables, module |-> module,
     num |-> num,
     ok |-> TRUE, ret |-> <<>>]

\* An exception is raised.
Raise(h) == [h EXCEPT !.ok = FALSE]

\* The record of a call: the method, whether it returned (ok) or raised, the
\* object it was called on (i) and the list it returned (ret).
Called(op, h, i) == [op |-> op, ok |-> h.ok, i |-> i, ret |-> h.ret]

\* The heap a call leaves becomes the state.
Commit(h, l) ==
    /\ made' = h.made
    /\ var_map' = h.var_map
    /\ uses' = h.uses
    /\ used_by' = h.used_by
    /\ arguments' = h.arguments
    /\ inputs' = h.inputs
    /\ parent' = h.parent
    /\ instructions' = h.instructions
    /\ index_map' = h.index_map
    /\ block_map' = h.block_map
    /\ preds' = h.preds
    /\ function' = h.function
    /\ blocks' = h.blocks
    /\ defined_names' = h.defined_names
    /\ unique_counter' = h.unique_counter
    /\ name' = h.name
    /\ functions' = h.functions
    /\ variables' = h.variables
    /\ module' = h.module
    /\ num' = h.num
    /\ last' = l
    /\ UNCHANGED <<extra_successors, extra_preds>>

\* ------------------------------------------------------------ sequences
Range(s) == {s[k] : k \in DOMAIN s}

\* The orders a Python set of these elements can be iterated in.
Orders(S) ==
    {s \in [1..Cardinality(S) -> S] : \A a, b \in DOMAIN s : s[a] = s[b] => a = b}

\* list.index(x), 1-based; 0 when x is absent (the code raises ValueError).
IndexOf(s, x) ==
    IF x \in Range(s) THEN CHOOSE k \in DOMAIN s : s[k] = x /\ \A j \in 1..(k - 1) : s[j] # x
    ELSE 0

\* list.remove(x): the first occurrence is dropped.
RemoveFirst(s, x) ==
    LET k == IndexOf(s, x)
    IN  IF k = 0 THEN s ELSE SubSeq(s, 1, k - 1) \o SubSeq(s, k + 1, Len(s))

\* list.insert(pos, x) with a 0-based pos in 0..len.
InsertAt(s, pos, x) == SubSeq(s, 1, pos) \o <<x>> \o SubSeq(s, pos + 1, Len(s))

\* ------------------------------------------------------------- def-use
\* Value.add_user
add_user(h, v, i) ==
    IF ~h.ok THEN h ELSE [h EXCEPT !.used_by[v] = @ \cup {i}]

\* Value.del_user: set.remove raises KeyError on a missing element
del_user(h, v, i) ==
    IF ~h.ok THEN h
    ELSE IF i \in h.used_by[v] THEN [h EXCEPT !.used_by[v] = @ \ {i}]
    ELSE Raise(h)

\* Value.use_count
use_count(h, v) == Cardinality(h.used_by[v])

\* Instruction.add_use
add_use(h, i, v) ==
    IF ~h.ok THEN h ELSE add_user([h EXCEPT !.uses[i] = @ \cup {v}], v, i)

\* A del_use that forgets the value's side of the relation.
del_use_one_sided(h, i, v) ==
    IF ~h.ok THEN h
    ELSE IF v \in h.uses[i] THEN [h EXCEPT !.uses[i] = @ \ {v}]
    ELSE Raise(h)

\* Instruction.del_use
del_use(h, i, v) ==
    IF ~h.ok THEN h
    ELSE IF v \in h.uses[i] THEN del_user([h EXCEPT !.uses[i] = @ \ {v}], v, i)
    ELSE Raise(h)

\* self.var_map[name] = value, name being the k-th slot
set_var(h, i, k, v) ==
    IF ~h.ok THEN h
    ELSE IF k \in DOMAIN h.var_map[i] THEN [h EXCEPT !.var_map[i][k] = v]
    ELSE [h EXCEPT !.var_map[i] = Append(@, v)]

\* The setter of var_use(name), name being the k-th slot of i.
setter(h, i, k, v) ==
    IF ~h.ok THEN h
    ELSE LET h1 == IF k \in DOMAIN h.var_map[i] THEN del_use(h, i, h.var_map[i][k])
                   ELSE h
         IN  add_use(set_var(h1, i, k, v), i, v)

\* The loop of Instruction.replace_use from the k-th slot on.
RECURSIVE replace_use_loop(_, _, _, _, _)
replace_use_loop(h, i, old, new, k) ==
    IF ~h.ok \/ k > Len(h.var_map[i]) THEN h
    ELSE IF h.var_map[i][k] = old
    THEN replace_use_loop(add_use(set_var(del_use(h, i, old), i, k, new), i, new),
                          i, old, new, k + 1)
    ELSE replace_use_loop(h, i, old, new, k + 1)

\* Instruction.replace_use without its assert: the loop finds no slot to rebind
Instruction_replace_use_unchecked(h, i, old, new) ==
    IF ~h.ok THEN h
    ELSE replace_use_loop(h, i, old, new, 1)

\* Instruction.replace_use
Instruction_replace_use(h, i, old, new) ==
    IF ~h.ok THEN h
    ELSE IF old \notin Range(h.var_map[i]) THEN Raise(h)
    ELSE replace_use_loop(h, i, old, new, 1)

\* Call.replace_use
Call_replace_use(h, i, old, new) ==
    IF ~h.ok THEN h
    ELSE LET idx == IndexOf(h.arguments[i], old)
         IN  IF idx = 0 THEN Raise(h)
             ELSE LET h1 == del_use(h, i, old)
                      h2 == IF h1.ok THEN [h1 EXCEPT !.arguments[i][idx] = new] ELSE h1
                  IN  add_use(h2, i, new)

\* self.inputs[block] = value: a new key goes last, an old one keeps its place
set_input(h, i, block, v) ==
    IF ~h.ok THEN h
    ELSE LET k == IndexOf([j \in DOMAIN h.inputs[i] |-> h.inputs[i][j][1]], block)
         IN  IF k = 0 THEN [h EXCEPT !.inputs[i] = Append(@, <<block, v>>)]
             ELSE [h EXCEPT !.inputs[i][k] = <<block, v>>]

\* The loop of Phi.replace_use from the k-th key on.
RECURSIVE Phi_replace_use_loop(_, _, _, _, _)
Phi_replace_use_loop(h, i, old, new, k) ==
    IF ~h.ok \/ k > Len(h.inputs[i]) THEN h
    ELSE IF h.inputs[i][k][2] = old
    THEN Phi_replace_use_loop(
             add_use(set_input(del_use(h, i, old), i, h.inputs[i][k][1], new), i, new),
             i, old, new, k + 1)
    ELSE Phi_replace_use_loop(h, i, old, new, k + 1)

\* Phi.replace_use
Phi_replace_use(h, i, old, new) ==
    IF ~h.ok THEN h
    ELSE IF old \notin {p[2] : p \in Range(h.inputs[i])} THEN Raise(h)
    ELSE Phi_replace_use_loop(h, i, old, new, 1)

\* use.replace_use(old, new), dispatched on the class of use
replace_use(h, i, old, new) ==
    CASE Kind(i) = "Call" -> Call_replace_use(h, i, old, new)
      [] Kind(i) = "Phi" -> Phi_replace_use(h, i, old, new)
      [] OTHER -> Instruction_replace_use(h, i, old, new)

\* The keys of a Phi's inputs.
InputBlocks(h, i) == {p[1] : p \in Range(h.inputs[i])}

\* Phi.get_value: a KeyError is a block of None
get_value(h, i, block) ==
    IF block \in InputBlocks(h, i)
    THEN (CHOOSE p \in Range(h.inputs[i]) : p[1] = block)[2]
    ELSE None

\* Phi.set_incoming
set_incoming(h, i, block, v) ==
    IF ~h.ok THEN h
    ELSE LET h1 == IF block \in InputBlocks(h, i) THEN del_use(h, i, get_value(h, i, block))
                   ELSE h
         IN  add_use(set_input(h1, i, block, v), i, v)

\* Phi.del_incoming: dict.pop raises KeyError on a missing key
del_incoming(h, i, block) ==
    IF ~h.ok THEN h
    ELSE IF block \notin InputBlocks(h, i) THEN Raise(h)
    ELSE LET v == get_value(h, i, block)
             h1 == [h EXCEPT !.inputs[i] = SelectSeq(@, LAMBDA p : p[1] # block)]
         IN  del_use(h1, i, v)

\* The loop of Value.replace_by over the snapshot list(self.used_by).
RECURSIVE replace_by_loop(_, _, _, _, _)
replace_by_loop(h, order, k, v, new) ==
    IF ~h.ok \/ k > Len(order) THEN h
    ELSE replace_by_loop(replace_use(h, order[k], v, new), order, k + 1, v, new)

\* Value.replace_by, the set being iterated in the given order
replace_by(h, v, new, order) == replace_by_loop(h, order, 1, v, new)

\* ------------------------------------------------------------- FastList
\* FastList.append
FastList_append(h, b, i) ==
    IF ~h.ok THEN h
    ELSE [h EXCEPT !.index_map[b] = {}, !.instructions[b] = Append(@, i)]

\* An insert that leaves the cached positions in place.
FastList_insert_keeping_cache(h, b, pos, i) ==
    IF ~h.ok THEN h
    ELSE [h EXCEPT !.instructions[b] = InsertAt(@, pos, i)]

\* FastList.insert
FastList_insert(h, b, pos, i) ==
    IF ~h.ok THEN h
    ELSE [h EXCEPT !.index_map[b] = {}, !.instructions[b] = InsertAt(@, pos, i)]

\* A remove that leaves the cached positions in place.
FastList_remove_keeping_cache(h, b, i) ==
    IF ~h.ok THEN h
    ELSE IF i \in Range(h.instructions[b])
    THEN [h EXCEPT !.instructions[b] = RemoveFirst(@, i)]
    ELSE Raise(h)

\* FastList.remove: the cache is cleared, then list.remove raises ValueError
\* on a missing item
FastList_remove(h, b, i) ==
    IF ~h.ok THEN h
    ELSE IF i \in Range(h.instructions[b])
    THEN [h EXCEPT !.index_map[b] = {}, !.instructions[b] = RemoveFirst(@, i)]
    ELSE Raise([h EXCEPT !.index_map[b] = {}])

\* FastList.index: the heap after the call (the cache filled, or ValueError)
FastList_index(h, b, i) ==
    IF ~h.ok THEN h
    ELSE IF \E p \in h.index_map[b] : p[1] = i THEN h
    ELSE IF i \in Range(h.instructions[b])
    THEN [h EXCEPT !.index_map[b] = @ \cup {<<i, IndexOf(h.instructions[b], i) - 1>>}]
    ELSE Raise(h)

\* What FastList.index returned after FastList_index: self._index_map[i]
IndexResult(h, b, i) == (CHOOSE p \in h.index_map[b] : p[1] = i)[2]

\* FastList.index with the position it returns in ret
index(h, b, i) ==
    LET h1 == FastList_index(h, b, i)
    IN  IF h1.ok THEN [h1 EXCEPT !.ret = <<IndexResult(h1, b, i)>>] ELSE h1

\* --------------------------------------------------------------- naming
\* The keys of Function.defined_names.
DefinedKeys(h) == {p[1] : p \in h.defined_names}

\* A renaming that tries one new name and does not look whether it is taken.
make_unique_name_once(h, dut, orig_name) ==
    IF h.name[dut] \in DefinedKeys(h)
    THEN [h EXCEPT !.name[dut] = Append(orig_name, h.unique_counter),
                   !.unique_counter = @ + 1]
    ELSE h

\* The while loop of Function.make_unique_name.
RECURSIVE make_unique_name_loop(_, _, _)
make_unique_name_loop(h, dut, orig_name) ==
    IF h.name[dut] \in DefinedKeys(h)
    THEN make_unique_name_loop(
             [h EXCEPT !.name[dut] = Append(orig_name, h.unique_counter),
                       !.unique_counter = @ + 1],
             dut, orig_name)
    ELSE h

\* Function.make_unique_name: '{}_{}'.format(orig_name, counter) is the name
\* with the counter appended
make_unique_name(h, dut) ==
    IF ~h.ok THEN h
    ELSE LET h1 == make_unique_name_loop(h, dut, h.name[dut])
         IN  [h1 EXCEPT !.defined_names = @ \cup {<<h1.name[dut], dut>>}]

\* Block.unique_name: self.function is None raises AttributeError
unique_name(h, b, value) ==
    IF ~h.ok THEN h
    ELSE IF h.function[b] = None THEN Raise(h)
    ELSE make_unique_name(h, value)

\* ---------------------------------------------------------- terminators
\* The keys of a LastStatement's block_map.
TargetKeys(h, t) == {p[1] : p \in Range(h.block_map[t])}

\* self.block_map[name]
TargetOf(h, t, nm) == (CHOOSE p \in Range(h.block_map[t]) : p[1] = nm)[2]

\* LastStatement.Targets
Targets(h, t) == [k \in DOMAIN h.block_map[t] |-> h.block_map[t][k][2]]

\* block._preds.remove(self): KeyError on a missing element
preds_remove(h, block, t) ==
    IF ~h.ok THEN h
    ELSE IF t \in h.preds[block] THEN [h EXCEPT !.preds[block] = @ \ {t}]
    ELSE Raise(h)

\* LastStatement.set_target_block
set_target_block(h, t, nm, block) ==
    IF ~h.ok THEN h
    ELSE LET h1 == IF nm \in TargetKeys(h, t) THEN preds_remove(h, TargetOf(h, t, nm), t)
                   ELSE h
             k == IndexOf([j \in DOMAIN h.block_map[t] |-> h.block_map[t][j][1]], nm)
         IN  IF ~h1.ok THEN h1
             ELSE IF k = 0
             THEN [h1 EXCEPT !.block_map[t] = Append(@, <<nm, block>>),
                             !.preds[block] = @ \cup {t}]
             ELSE [h1 EXCEPT !.block_map[t][k] = <<nm, block>>,
                             !.preds[block] = @ \cup {t}]

\* LastStatement.delete: popitem takes the entry inserted last
RECURSIVE delete(_, _)
delete(h, t) ==
    IF ~h.ok \/ h.block_map[t] = <<>> THEN h
    ELSE LET n == Len(h.block_map[t])
             block == h.block_map[t][n][2]
         IN  delete(preds_remove([h EXCEPT !.block_map[t] = SubSeq(@, 1, n - 1)], block, t), t)

\* The loop of LastStatement.change_target from the k-th name on.
RECURSIVE change_target_loop(_, _, _, _, _)
change_target_loop(h, t, old, new, k) ==
    IF ~h.ok \/ k > Len(h.block_map[t]) THEN h
    ELSE IF h.block_map[t][k][2] = old
    THEN change_target_loop(set_target_block(h, t, h.block_map[t][k][1], new),
                            t, old, new, k + 1)
    ELSE change_target_loop(h, t, old, new, k + 1)

\* LastStatement.change_target
change_target(h, t, old, new) == change_target_loop(h, t, old, new, 1)

\* ---------------------------------------------------------------- Block
\* Block.LastInstruction: None for an empty block
LastInstruction(h, b) ==
    IF h.instructions[b] = <<>> THEN None
    ELSE h.instructions[b][Len(h.instructions[b])]

\* isinstance(x, LastStatement)
IsLastStatement(x) == x \in LastStatements

\* i.parent = block
set_parent(h, i, block) ==
    IF ~h.ok THEN h ELSE [h EXCEPT !.parent[i] = block]

\* An add_instruction that does not look at the last instruction.
add_instruction_unchecked(h, b, i) ==
    LET h3 == FastList_append(set_parent(h, i, b), b, i)
    IN  IF h3.ok /\ i \in Values /\ h3.function[b] # None THEN unique_name(h3, b, i)
        ELSE h3

\* Block.add_instruction
add_instruction(h, b, i) ==
    LET h1 == set_parent(h, i, b)
        h2 == IF IsLastStatement(LastInstruction(h1, b)) THEN Raise(h1) ELSE h1
        h3 == FastList_append(h2, b, i)
    IN  IF h3.ok /\ i \in Values /\ h3.function[b] # None THEN unique_name(h3, b, i)
        ELSE h3

\* Block.insert_instruction; before is None or an instruction
insert_instruction(h, b, i, before) ==
    LET h1 == IF before = None THEN h
              ELSE IF h.parent[before] # b THEN Raise(h)
              ELSE FastList_index(h, b, before)
        pos == IF before = None \/ ~h1.ok THEN 0 ELSE IndexResult(h1, b, before)
        h2 == FastList_insert(set_parent(h1, i, b), b, pos, i)
    IN  IF h2.ok /\ i \in Values THEN unique_name(h2, b, i) ELSE h2

\* A remove_instruction that detaches the uses of i before unlinking it.
remove_instruction_detaching(h, b, i) ==
    FastList_remove(
        set_parent([h EXCEPT !.uses[i] = {},
                             !.used_by = [v \in DOMAIN @ |-> @[v] \ {i}]], i, None),
        b, i)

\* Block.remove_instruction
remove_instruction(h, b, i) ==
    FastList_remove(set_parent(h, i, None), b, i)

\* Block.replaceInstruction: only a LastStatement has delete(), and FastList
\* has no __setitem__, so the assignment self.instructions[idx] = i2 raises
\* TypeError
replaceInstruction(h, b, i1, i2) ==
    LET h1 == FastList_index(h, b, i1)
        h2 == set_parent(h1, i1, None)
        h3 == IF ~h2.ok THEN h2
              ELSE IF IsLastStatement(i1) THEN delete(h2, i1)
              ELSE Raise(h2)
        h4 == set_parent(h3, i2, b)
    IN  IF h4.ok THEN Raise(h4) ELSE h4

\* Block.phis
phis(h, b) == SelectSeq(h.instructions[b], LAMBDA i : Kind(i) = "Phi")

\* The inner loop of Block.replace_incoming: set_incoming for each new block.
RECURSIVE replace_incoming_set(_, _, _, _, _)
replace_incoming_set(h, phi, new_blocks, value, k) ==
    IF ~h.ok \/ k > Len(new_blocks) THEN h
    ELSE replace_incoming_set(set_incoming(h, phi, new_blocks[k], value),
                              phi, new_blocks, value, k + 1)

\* The outer loop of Block.replace_incoming over the snapshot self.phis.
RECURSIVE replace_incoming_loop(_, _, _, _, _)
replace_incoming_loop(h, ps, block, new_blocks, k) ==
    IF ~h.ok \/ k > Len(ps) THEN h
    ELSE IF block \notin InputBlocks(h, ps[k]) THEN Raise(h)
    ELSE LET value == get_value(h, ps[k], block)
             h1 == replace_incoming_set(h, ps[k], new_blocks, value, 1)
         IN  replace_incoming_loop(del_incoming(h1, ps[k], block),
                                   ps, block, new_blocks, k + 1)

\* Block.replace_incoming
replace_incoming(h, b, block, new_blocks) ==
    replace_incoming_loop(h, phis(h, b), block, new_blocks, 1)

\* The loop of Instruction.remove_from_block over the snapshot list(self.uses).
RECURSIVE remove_from_block_loop(_, _, _, _)
remove_from_block_loop(h, i, order, k) ==
    IF ~h.ok \/ k > Len(order) THEN h
    ELSE remove_from_block_loop(del_use(h, i, order[k]), i, order, k + 1)

\* A remove_from_block that unlinks the instruction without deleting its uses.
remove_from_block_keeping_uses(h, i, order) ==
    IF h.parent[i] = None THEN Raise(h)
    ELSE remove_instruction(h, h.parent[i], i)

\* Instruction.remove_from_block, the set being iterated in the given order;
\* self.block is None raises AttributeError
remove_from_block(h, i, order) ==
    LET h1 == remove_from_block_loop(h, i, order, 1)
    IN  IF ~h1.ok THEN h1
        ELSE IF h1.parent[i] = None THEN Raise(h1)
        ELSE remove_instruction(h1, h1.parent[i], i)

\* ------------------------------------------------------------- Function
\* Block.get_successors is defined: the last instruction of a block that is
\* not empty must have Targets, which only a LastStatement has
SuccessorsDefined(h, b) ==
    h.instructions[b] = <<>> \/ IsLastStatement(LastInstruction(h, b))

\* Block.get_successors
Successors(h, b) ==
    IF h.instructions[b] = <<>> THEN extra_successors[b]
    ELSE Targets(h, LastInstruction(h, b)) \o extra_successors[b]

\* A for loop that looks at the first successor only.
get_blocks_visit_first(succ, k, bbs, worklist) ==
    IF k > Len(succ) \/ k > 1 \/ succ[k] \in Range(bbs) THEN <<bbs, worklist>>
    ELSE <<Append(bbs, succ[k]), Append(worklist, succ[k])>>

\* The for loop of Function.get_blocks over the successors of one block:
\* <<bbs, worklist>> after it.
RECURSIVE get_blocks_visit(_, _, _, _)
get_blocks_visit(succ, k, bbs, worklist) ==
    IF k > Len(succ) THEN <<bbs, worklist>>
    ELSE IF succ[k] \in Range(bbs) THEN get_blocks_visit(succ, k + 1, bbs, worklist)
    ELSE get_blocks_visit(succ, k + 1, Append(bbs, succ[k]), Append(worklist, succ[k]))

\* The while loop of Function.get_blocks: bbs after it, or <<>> when
\* b.Successors raised (bbs is never empty otherwise, it holds entry).
RECURSIVE get_blocks_walk(_, _, _)
get_blocks_walk(h, bbs, worklist) ==
    IF worklist = <<>> THEN bbs
    ELSE LET b == worklist[Len(worklist)]
             rest == SubSeq(worklist, 1, Len(worklist) - 1)
         IN  IF ~SuccessorsDefined(h, b) THEN <<>>
             ELSE LET r == get_blocks_visit(Successors(h, b), 1, bbs, rest)
                  IN  get_blocks_walk(h, r[1], r[2])

\* The blocks the while loop of Function.get_blocks pops from the worklist,
\* in the order it pops them, after popped; it ends at a block whose
\* Successors raise.
RECURSIVE get_blocks_popped(_, _, _, _)
get_blocks_popped(h, bbs, worklist, popped) ==
    IF worklist = <<>> THEN popped
    ELSE LET b == worklist[Len(worklist)]
             rest == SubSeq(worklist, 1, Len(worklist) - 1)
         IN  IF ~SuccessorsDefined(h, b) THEN Append(popped, b)
             ELSE LET r == get_blocks_visit(Successors(h, b), 1, bbs, rest)
                  IN  get_blocks_popped(h, r[1], r[2], Append(popped, b))

\* A block list that puts entry first and appends epilog without taking the
\* epilog found by the walk out.
get_blocks_list_appending(h) ==
    LET bbs == get_blocks_walk(h, <<entry>>, <<entry>>)
    IN  IF bbs = <<>> THEN <<>>
        ELSE <<entry>> \o SelectSeq(bbs, LAMBDA b : b # entry) \o <<epiloog>>

\* The list Function.get_blocks builds when the cache is empty.
get_blocks_list(h) ==
    LET bbs == get_blocks_walk(h, <<entry>>, <<entry>>)
    IN  IF bbs = <<>> THEN <<>>
        ELSE <<entry>> \o SelectSeq(bbs, LAMBDA b : b # entry /\ b # epiloog) \o <<epiloog>>

\* Function.get_blocks
get_blocks(h) ==
    IF ~h.ok THEN h
    ELSE IF h.blocks # <<>> THEN [h EXCEPT !.ret = h.blocks[1]]
    ELSE LET bbs == get_blocks_list(h)
         IN  IF bbs = <<>> THEN Raise(h)
             ELSE [h EXCEPT !.blocks = <<bbs>>, !.ret = bbs]

\* Function.add_block
add_block(h, block) ==
    LET h1 == make_unique_name([h EXCEPT !.function[block] = Fn], block)
    IN  [h1 EXCEPT !.blocks = <<>>]

\* Function.remove_block
remove_block(h, block) ==
    [h EXCEPT !.function[block] = None, !.blocks = <<>>]

\* The set b of Block.get_predecessors, h.ret being self.parent.blocks: the
\* blocks of the instructions in _preds and extra_preds, cut down to the
\* function's block list.
PredecessorSet(h, b) ==
    ({h.parent[t] : t \in h.preds[b]} \cup Range(extra_preds[b])) \cap Range(h.ret)

\* Block.get_predecessors up to the read of self.parent.blocks, which fills
\* the function's cache (h.ret is the block list); self.parent is None
\* raises AttributeError
get_predecessors(h, b) ==
    IF ~h.ok THEN h
    ELSE IF h.function[b] = None THEN Raise(h)
    ELSE get_blocks(h)

\* Block.get_predecessors: list(b), the set being listed in the given order
Predecessors(h, b, order) ==
    LET h1 == get_predecessors(h, b)
    IN  IF h1.ok THEN [h1 EXCEPT !.ret = order] ELSE h1

\* The heap before Function.__init__: every object of the model constructed
\* and detached.
Blank ==
    [made |-> Consts \cup Phis \cup Terminators \cup Variables \cup Parameters,
     var_map |-> [i \in Insts |-> <<>>],
     uses |-> [i \in Insts |-> {}],
     used_by |-> [v \in Values |-> {}],
     arguments |-> [c \in Calls \cup {Fn} |-> <<>>],
     inputs |-> [p \in Phis |-> <<>>],
     parent |-> [i \in Insts |-> None],
     instructions |-> [b \in Blocks |-> <<>>],
     index_map |-> [b \in Blocks |-> {}],
     block_map |-> [t \in LastStatements |-> <<>>],
     preds |-> [b \in Blocks |-> {}],
     function |-> [b \in Blocks |-> None],
     blocks |-> <<>>,
     defined_names |-> {},
     unique_counter |-> 0,
     name |-> [x \in Blocks \cup Values |->
                 IF x = entry THEN <<"entry">>
                 ELSE IF x = epiloog THEN <<"epilog">>
                 ELSE IF x \in Blocks THEN <<"bb">> ELSE <<"v">>],
     functions |-> [m \in Modules |-> <<>>],
     variables |-> [m \in Modules |-> <<>>],
     module |-> [x \in {Fn} \cup Variables \cup Parameters |-> None],
     num |-> [p \in Parameters |-> None],
     ok |-> TRUE, ret |-> <<>>]

\* Function.__init__ up to the Terminator of the epilog
Function_init ==
    add_instruction(add_block(add_block(Blank, entry), epiloog), epiloog,
                    <<"Terminator", 0>>)

Init ==
    /\ made = Function_init.made
    /\ var_map = Function_init.var_map
    /\ uses = Function_init.uses
    /\ used_by = Function_init.used_by
    /\ arguments = Function_init.arguments
    /\ inputs = Function_init.inputs
    /\ parent = Function_init.parent
    /\ instructions = Function_init.instructions
    /\ index_map = Function_init.index_map
    /\ block_map = Function_init.block_map
    /\ preds = Function_init.preds
    /\ function = Function_init.function
    /\ blocks = Function_init.blocks
    /\ defined_names = Function_init.defined_names
    /\ unique_counter = Function_init.unique_counter
    /\ name = Function_init.name
    /\ functions = Function_init.functions
    /\ variables = Function_init.variables
    /\ module = Function_init.module
    /\ num = Function_init.num
    \* self.entry.extra_successors.append(self.epiloog)
    /\ extra_successors = [b \in Blocks |-> IF b = entry THEN <<epiloog>> ELSE <<>>]
    \* self.epiloog.extra_preds.append(self.entry)
    /\ extra_preds = [b \in Blocks |-> IF b = epiloog THEN <<entry>> ELSE <<>>]
    /\ last = [op |-> "Function", ok |-> TRUE, i |-> Fn, ret |-> <<>>]

\* ------------------------------------------------------------ dominance
\* Instruction.position: self.block is None raises AttributeError
position(h, i) ==
    IF ~h.ok THEN h
    ELSE IF h.parent[i] = None THEN Raise(h)
    ELSE index(h, h.parent[i], i)

\* The blocks control reaches from the blocks of S without entering block a.
RECURSIVE ReachableAvoiding(_, _, _)
ReachableAvoiding(h, S, a) ==
    LET T == S \cup (UNION {IF SuccessorsDefined(h, b) THEN Range(Successors(h, b)) ELSE {}
                            : b \in S} \ {a})
    IN  IF T = S THEN S ELSE ReachableAvoiding(h, T, a)

\* cfg_info.strictly_dominates(a, b) of the CFG analysis the function holds:
\* a is not b and every path from the entry to b passes through a
strictly_dominates(h, a, b) ==
    a # b /\ b \notin ReachableAvoiding(h, {entry} \ {a}, a)

\* Block.dominates: self.function is None raises AttributeError
Block_dominates(h, b, other) ==
    IF ~h.ok THEN h
    ELSE IF h.function[b] = None THEN Raise(h)
    ELSE [h EXCEPT !.ret = <<strictly_dominates(h, b, other)>>]

\* The last key of a Phi's inputs whose value is v instead of the first.
LastInputOf(h, p, v) ==
    IF \E k \in DOMAIN h.inputs[p] : h.inputs[p][k][2] = v
    THEN CHOOSE k \in DOMAIN h.inputs[p] :
             h.inputs[p][k][2] = v
             /\ \A j \in (k + 1)..Len(h.inputs[p]) : h.inputs[p][j][2] # v
    ELSE 0

\* The first key of a Phi's inputs whose value is v, as a position in the
\* dict; 0 when no key has it.
FirstInputOf(h, p, v) ==
    IF \E k \in DOMAIN h.inputs[p] : h.inputs[p][k][2] = v
    THEN CHOOSE k \in DOMAIN h.inputs[p] :
             h.inputs[p][k][2] = v /\ \A j \in 1..(k - 1) : h.inputs[p][j][2] # v
    ELSE 0

\* Instruction.dominates, seen being the Phis this query already went
\* through: the same query again never ends (RecursionError). The last
\* instruction of an empty block is None, which has no block
\* (AttributeError).
RECURSIVE Instruction_dominates(_, _, _, _)
Instruction_dominates(h, self, other, seen) ==
    IF ~h.ok THEN h
    ELSE IF Kind(self) \in {"Parameter", "Variable"} THEN [h EXCEPT !.ret = <<TRUE>>]
    ELSE IF h.parent[self] = None THEN Raise(h)
    ELSE IF Kind(other) = "Phi"
    THEN LET k == FirstInputOf(h, other, self)
         IN  IF k = 0 \/ other \in seen THEN Raise(h)
             ELSE Instruction_dominates(h, self, LastInstruction(h, h.inputs[other][k][1]),
                                        seen \cup {other})
    ELSE IF other = None THEN Raise(h)
    ELSE IF h.parent[self] = h.parent[other]
    THEN LET h1 == position(h, self)
             h2 == position(h1, other)
         IN  IF h2.ok THEN [h2 EXCEPT !.ret = <<h1.ret[1] < h2.ret[1]>>] ELSE h2
    ELSE Block_dominates(h, h.parent[self], h.parent[other])

\* self.dominates(other)
dominates(h, self, other) == Instruction_dominates(h, self, other, {})

\* ---------------------------------------------------------------- Module
\* Module.add_function: assert type(f) is Function
add_function(h, m, f) ==
    IF ~h.ok THEN h
    ELSE IF Kind(f) # "Function" THEN Raise(h)
    ELSE [h EXCEPT !.functions[m] = Append(@, f), !.module[f] = m]

\* Module.add_variable: assert type(v) is Variable, which a Parameter fails
add_variable(h, m, v) ==
    IF ~h.ok THEN h
    ELSE IF Kind(v) # "Variable" THEN Raise(h)
    ELSE [h EXCEPT !.variables[m] = Append(@, v), !.module[v] = m]

\* Function(name, module): __init__ ends with module.add_function(self)
\* when a module is given
Function_init_module(m) ==
    IF m = None THEN Function_init ELSE add_function(Function_init, m, Fn)

\* Function.add_parameter: assert type(parameter) is Parameter
add_parameter(h, parameter) ==
    IF ~h.ok THEN h
    ELSE IF Kind(parameter) # "Parameter" THEN Raise(h)
    ELSE [h EXCEPT !.num[parameter] = Len(h.arguments[Fn]),
                   !.arguments[Fn] = Append(@, parameter)]

\* The state after Function(name, module), with a module or without one.
InitModule ==
    \E m \in Modules \cup {None} :
        /\ made = Function_init.made
        /\ var_map = Function_init.var_map
        /\ uses = Function_init.uses
        /\ used_by = Function_init.used_by
        /\ arguments = Function_init.arguments
        /\ inputs = Function_init.inputs
        /\ parent = Function_init.parent
        /\ instructions = Function_init.instructions
        /\ index_map = Function_init.index_map
        /\ block_map = Function_init.block_map
        /\ preds = Function_init.preds
        /\ function = Function_init.function
        /\ blocks = Function_init.blocks
        /\ defined_names = Function_init.defined_names
        /\ unique_counter = Function_init.unique_counter
        /\ name = Function_init.name
        /\ functions = Function_init_module(m).functions
        /\ variables = Function_init_module(m).variables
        /\ module = Function_init_module(m).module
        /\ num = Function_init.num
        /\ extra_successors = [b \in Blocks |-> IF b = entry THEN <<epiloog>> ELSE <<>>]
        /\ extra_preds = [b \in Blocks |-> IF b = epiloog THEN <<entry>> ELSE <<>>]
        /\ last = [op |-> "Function", ok |-> TRUE, i |-> Fn, ret |-> <<>>]

\* The names callers give to the blocks they construct: Block(name).
ProposedNames == {<<"bb">>, <<"entry">>, <<"epilog">>, <<"entry", 0>>}

\* The state after Function.__init__, the ordinary blocks having been
\* constructed with any of the proposed names.
InitNames ==
    \E nm \in [Ordinary -> ProposedNames] :
        /\ made = Function_init.made
        /\ var_map = Function_init.var_map
        /\ uses = Function_init.uses
        /\ used_by = Function_init.used_by
        /\ arguments = Function_init.arguments
        /\ inputs = Function_init.inputs
        /\ parent = Function_init.parent
        /\ instructions = Function_init.instructions
        /\ index_map = Function_init.index_map
        /\ block_map = Function_init.block_map
        /\ preds = Function_init.preds
        /\ function = Function_init.function
        /\ blocks = Function_init.blocks
        /\ defined_names = Function_init.defined_names
        /\ unique_counter = Function_init.unique_counter
        /\ name = [x \in DOMAIN Function_init.name |->
                      IF x \in Ordinary THEN nm[x] ELSE Function_init.name[x]]
        /\ functions = Function_init.functions
        /\ variables = Function_init.variables
        /\ module = Function_init.module
        /\ num = Function_init.num
        /\ extra_successors = [b \in Blocks |-> IF b = entry THEN <<epiloog>> ELSE <<>>]
        /\ extra_preds = [b \in Blocks |-> IF b = epiloog THEN <<entry>> ELSE <<>>]
        /\ last = [op |-> "Function", ok |-> TRUE, i |-> Fn, ret |-> <<>>]

\* -------------------------------------------------------------- actions
\* One action per call from a pass: the call is evaluated on the current
\* heap and what it leaves is committed.
Do(op, result, i) == \E h \in {result} : Commit(h, Called(op, h, i))

\* The instruction handed to a block is one that is in no block's sequence
\* (new, removed, or refused by an earlier add_instruction).
InNoSequence(i) == \A b \in Blocks : i \notin Range(instructions[b])

\* Binop(a, '+', b, name, ty)
Binop_init(h, i, a, b) ==
    setter(setter([h EXCEPT !.made = @ \cup {i}], i, 1, a), i, 2, b)

NewBinop(i, a, b) ==
    /\ i \notin made
    /\ Do("Binop", Binop_init(Heap, i, a, b), i)

\* The loop of Call.__init__: add_use for each argument.
RECURSIVE Call_init_loop(_, _, _)
Call_init_loop(h, i, k) ==
    IF k > Len(h.arguments[i]) THEN h
    ELSE Call_init_loop(add_use(h, i, h.arguments[i][k]), i, k + 1)

\* Call(function, arguments, name, ty)
Call_init(h, i, args) ==
    Call_init_loop([h EXCEPT !.made = @ \cup {i}, !.arguments[i] = args], i, 1)

NewCall(i, args) ==
    /\ i \notin made
    /\ Do("Call", Call_init(Heap, i, args), i)

\* Jump(target): the block_ref setter calls set_target_block
Jump_init(h, j, target) ==
    set_target_block([h EXCEPT !.made = @ \cup {j}], j, "target", target)

NewJump(j, target) ==
    /\ j \notin made
    /\ Do("Jump", Jump_init(Heap, j, target), j)

\* CJump(a, cond, b, lab_yes, lab_no)
CJump_init(h, t, a, b, lab_yes, lab_no) ==
    set_target_block(
        set_target_block(
            setter(setter([h EXCEPT !.made = @ \cup {t}], t, 1, a), t, 2, b),
            t, "lab_yes", lab_yes),
        t, "lab_no", lab_no)

NewCJump(t, a, b, lab_yes, lab_no) ==
    /\ t \notin made
    /\ Do("CJump", CJump_init(Heap, t, a, b, lab_yes, lab_no), t)

\* t.target = block, t.lab_yes = block or t.lab_no = block
SetBlockRef(t, nm, block) ==
    /\ t \in made
    /\ nm \in TargetNames(t)
    /\ Do("set_target_block", set_target_block(Heap, t, nm, block), t)

Delete(t) ==
    /\ t \in made
    /\ Do("delete", delete(Heap, t), t)

\* j.target = block
SetTarget(j, block) ==
    /\ j \in made
    /\ Do("set_target_block", set_target_block(Heap, j, "target", block), j)

ChangeTarget(j, old, new) ==
    /\ j \in made
    /\ Do("change_target", change_target(Heap, j, old, new), j)

AddBlock(b) ==
    /\ add_block(Heap, b).unique_counter <= MaxCounter
    /\ Do("add_block", add_block(Heap, b), b)

\* The block removed is one of the function.
RemoveBlock(b) ==
    /\ function[b] = Fn
    /\ Do("remove_block", remove_block(Heap, b), b)

\* block.Predecessors is read
GetPredecessors(b) ==
    LET h1 == get_predecessors(Heap, b)
    IN  \E order \in (IF h1.ok THEN Orders(PredecessorSet(h1, b)) ELSE {<<>>}) :
            Do("Predecessors", Predecessors(Heap, b, order), b)

\* function.blocks is read
GetBlocks ==
    Do("blocks", get_blocks(Heap), Fn)

\* block.instructions.append(x)
Append_(b, x) ==
    /\ Len(instructions[b]) < MaxLen
    /\ Do("append", FastList_append(Heap, b, x), x)

\* block.instructions.insert(pos, x), pos within the list
Insert(b, pos, x) ==
    /\ Len(instructions[b]) < MaxLen
    /\ pos <= Len(instructions[b])
    /\ Do("insert", FastList_insert(Heap, b, pos, x), x)

\* block.instructions.remove(x)
Remove(b, x) ==
    Do("remove", FastList_remove(Heap, b, x), x)

\* block.instructions.index(x)
Index(b, x) ==
    Do("index", index(Heap, b, x), x)

\* module.add_function(f): the caller hands it a Function or, by mistake, a
\* Variable
AddFunction(m, f) ==
    /\ Len(functions[m]) < MaxLen
    /\ Do("add_function", add_function(Heap, m, f), f)

\* module.add_variable(v)
AddVariable(m, v) ==
    /\ Len(variables[m]) < MaxLen
    /\ Do("add_variable", add_variable(Heap, m, v), v)

\* function.add_parameter(p)
AddParameter(p) ==
    /\ Len(arguments[Fn]) < MaxLen
    /\ Do("add_parameter", add_parameter(Heap, p), p)

\* self.dominates(other); the record tells a query about a Phi from the rest
Dominates(self, other) ==
    /\ self \in made
    /\ other \in made
    /\ Do(IF Kind(other) = "Phi" THEN "dominates_phi" ELSE "dominates",
          dominates(Heap, self, other), self)

\* i.a = v or i.b = v: the k-th named slot is assigned
SetOperand(i, k, v) ==
    /\ i \in made
    /\ k \in 1..Len(RoleNames(i))
    /\ Do("setter", setter(Heap, i, k, v), i)

AddUse(i, v) ==
    /\ i \in made
    /\ Do("add_use", add_use(Heap, i, v), i)

DelUse(i, v) ==
    /\ i \in made
    /\ Do("del_use", del_use(Heap, i, v), i)

ReplaceUse(i, old, new) ==
    /\ i \in made
    /\ Do("replace_use", replace_use(Heap, i, old, new), i)

SetIncoming(p, block, v) ==
    Do("set_incoming", set_incoming(Heap, p, block, v), p)

DelIncoming(p, block) ==
    Do("del_incoming", del_incoming(Heap, p, block), p)

ReplaceBy(v, new) ==
    \E order \in Orders(used_by[v]) :
        Do("replace_by", replace_by(Heap, v, new, order), v)

AddInstruction(b, i) ==
    /\ i \in made
    /\ InNoSequence(i)
    /\ add_instruction(Heap, b, i).unique_counter <= MaxCounter
    /\ Do("add_instruction", add_instruction(Heap, b, i), i)

InsertInstruction(b, i, before) ==
    /\ i \in made
    /\ InNoSequence(i)
    /\ before \in made \cup {None}
    /\ insert_instruction(Heap, b, i, before).unique_counter <= MaxCounter
    /\ Do("insert_instruction", insert_instruction(Heap, b, i, before), i)

RemoveInstruction(b, i) ==
    /\ i \in made
    /\ Do("remove_instruction", remove_instruction(Heap, b, i), i)

ReplaceInstruction(b, i1, i2) ==
    /\ i1 \in made
    /\ i2 \in made
    /\ InNoSequence(i2)
    /\ Do("replaceInstruction", replaceInstruction(Heap, b, i1, i2), i1)

RemoveFromBlock(i) ==
    /\ i \in made
    /\ \E order \in Orders(uses[i]) :
           Do("remove_from_block", remove_from_block(Heap, i, order), i)

ReplaceIncoming(b, block, new_blocks) ==
    Do("replace_incoming", replace_incoming(Heap, b, block, new_blocks), b)

\* ------------------------------------------------- the def-use behaviours
\* The values passes use as operands.
Operands == Consts
\* The argument lists of a Call: one or two values.
ArgLists == [{1} -> Operands] \cup [{1, 2} -> Operands]
\* The blocks a Phi has incoming values for: the entry and a second block.
PredBlocks == {entry, <<"B", 2>>}
\* The block the passes place a Phi in; it is not yet added to a function.
Host == <<"B", 1>>
\* The lists of distinct blocks handed to replace_incoming.
BlockLists(S) == UNION {Orders(T) : T \in SUBSET S}

\* Passes that build instructions not yet placed in a block (a Binop, a Call
\* and a Phi over the Const values) and rewrite their operands through the
\* operand setters, replace_use, set_incoming, del_incoming and replace_by.
Next ==
    \/ \E i \in Binops, a, b \in Operands : NewBinop(i, a, b)
    \/ \E i \in Calls, args \in ArgLists : NewCall(i, args)
    \/ \E i \in Binops, k \in {1, 2}, v \in Operands : SetOperand(i, k, v)
    \/ \E i \in Binops \cup Calls \cup Phis, old, new \in Operands : ReplaceUse(i, old, new)
    \/ \E p \in Phis, block \in PredBlocks, v \in Operands : SetIncoming(p, block, v)
    \/ \E p \in Phis, block \in PredBlocks : DelIncoming(p, block)
    \/ \E v, new \in Operands : ReplaceBy(v, new)

Spec == Init /\ [][Next]_vars

\* The same passes on a Binop and a Phi, calling add_use and del_use on the
\* Binop directly as well, and remove_from_block.
NextUse ==
    \/ \E i \in Binops, a, b \in Operands : NewBinop(i, a, b)
    \/ \E i \in Binops, k \in {1, 2}, v \in Operands : SetOperand(i, k, v)
    \/ \E i \in Binops, v \in Operands : AddUse(i, v)
    \/ \E i \in Binops, v \in Operands : DelUse(i, v)
    \/ \E i \in Binops \cup Phis, old, new \in Operands : ReplaceUse(i, old, new)
    \/ \E p \in Phis, block \in PredBlocks, v \in Operands : SetIncoming(p, block, v)
    \/ \E p \in Phis, block \in PredBlocks : DelIncoming(p, block)
    \/ \E v, new \in Operands : ReplaceBy(v, new)
    \/ \E i \in Binops \cup Phis : RemoveFromBlock(i)

SpecUse == Init /\ [][NextUse]_vars

\* Passes that rewrite a block holding a Phi.
NextPhi ==
    \/ \E p \in Phis, old, new \in Operands : ReplaceUse(p, old, new)
    \/ \E p \in Phis, block \in PredBlocks, v \in Operands : SetIncoming(p, block, v)
    \/ \E p \in Phis, block \in PredBlocks : DelIncoming(p, block)
    \/ \E v, new \in Operands : ReplaceBy(v, new)
    \/ \E p \in Phis : AddInstruction(Host, p)
    \/ \E p \in Phis : RemoveInstruction(Host, p)
    \/ \E p \in Phis : RemoveFromBlock(p)
    \/ \E block \in PredBlocks, new_blocks \in BlockLists(PredBlocks) :
           ReplaceIncoming(Host, block, new_blocks)

SpecPhi == Init /\ [][NextPhi]_vars

\* Passes that edit the instruction sequence of the entry block with a Const
\* value and Jumps to the epilog.
Placed == {<<"Const", 1>>} \cup Jumps

NextBlock ==
    \/ \E j \in Jumps : NewJump(j, epiloog)
    \/ \E i \in Placed : AddInstruction(entry, i)
    \/ \E i \in Placed, before \in Placed \cup {None} : InsertInstruction(entry, i, before)
    \/ \E i \in Placed : RemoveInstruction(entry, i)
    \/ \E i1, i2 \in Placed : ReplaceInstruction(entry, i1, i2)

SpecBlock == Init /\ [][NextBlock]_vars

\* A builder that adds blocks to the function, ends blocks with Jumps,
\* retargets the Jumps and reads function.blocks in between.
Sources == {entry, <<"B", 1>>}

NextCfg ==
    \/ \E b \in Ordinary : AddBlock(b)
    \/ \E b \in Ordinary : RemoveBlock(b)
    \/ \E j \in Jumps, target \in Ordinary : NewJump(j, target)
    \/ \E b \in Sources, j \in Jumps : AddInstruction(b, j)
    \/ \E b \in Sources, j \in Jumps : InsertInstruction(b, j, None)
    \/ \E j \in Jumps, block \in Ordinary : SetTarget(j, block)
    \/ \E j \in Jumps, old, new \in Ordinary : ChangeTarget(j, old, new)
    \/ GetBlocks

SpecCfg == Init /\ [][NextCfg]_vars

\* Passes that build Jumps and CJumps over the ordinary blocks, reassign
\* their targets, and delete them.
Branches == Jumps \cup CJumps
AllTargetNames == {"target", "lab_yes", "lab_no"}

NextTarget ==
    \/ \E j \in Jumps, target \in Ordinary : NewJump(j, target)
    \/ \E t \in CJumps, lab_yes, lab_no \in Ordinary :
           NewCJump(t, <<"Const", 1>>, <<"Const", 2>>, lab_yes, lab_no)
    \/ \E t \in Branches, nm \in AllTargetNames, block \in Ordinary :
           SetBlockRef(t, nm, block)
    \/ \E t \in Branches, old, new \in Ordinary : ChangeTarget(t, old, new)
    \/ \E t \in Branches : Delete(t)

SpecTarget == Init /\ [][NextTarget]_vars

\* A builder that adds blocks, ends blocks with Jumps, retargets the Jumps
\* and reads function.blocks and the Predecessors of blocks in between.
NextEdge ==
    \/ \E b \in Ordinary : AddBlock(b)
    \/ \E j \in Jumps, target \in Ordinary : NewJump(j, target)
    \/ \E b \in Sources, j \in Jumps : AddInstruction(b, j)
    \/ \E j \in Jumps, block \in Ordinary : SetTarget(j, block)
    \/ GetBlocks
    \/ \E b \in Ordinary : GetPredecessors(b)

SpecEdge == Init /\ [][NextEdge]_vars

\* A builder that adds and removes blocks and reads function.blocks, the
\* entry being ended by a Jump to any block, entry and epilog included.
NextList ==
    \/ \E b \in Ordinary : AddBlock(b)
    \/ \E b \in Ordinary : RemoveBlock(b)
    \/ \E target \in Blocks : NewJump(<<"Jump", 1>>, target)
    \/ AddInstruction(entry, <<"Jump", 1>>)
    \/ GetBlocks

SpecList == Init /\ [][NextList]_vars

\* A builder that fills blocks with Const values and adds the blocks to the
\* function, in any order.
NextValue ==
    \/ \E b \in Ordinary : AddBlock(b)
    \/ \E b \in Sources, v \in Consts : AddInstruction(b, v)
    \/ \E b \in Sources, v \in Consts : InsertInstruction(b, v, None)

SpecValue == Init /\ [][NextValue]_vars

\* A builder that adds blocks constructed with any of the proposed names,
\* a block possibly more than once.
NextName ==
    \/ \E b \in Ordinary : AddBlock(b)

SpecName == InitNames /\ [][NextName]_vars

\* A caller that drives the FastList of a block directly with the Const
\* values as items, an item possibly stored more than once.
NextFast ==
    \/ \E x \in Consts : Append_(Host, x)
    \/ \E x \in Consts, pos \in 0..MaxLen : Insert(Host, pos, x)
    \/ \E x \in Consts : Remove(Host, x)
    \/ \E x \in Consts : Index(Host, x)

SpecFast == Init /\ [][NextFast]_vars

\* replace_use on a Binop, a Call and a Phi, with values they reference and
\* values they do not.
NextReplace ==
    \/ \E i \in Binops, a, b \in Operands : NewBinop(i, a, b)
    \/ \E i \in Calls, args \in ArgLists : NewCall(i, args)
    \/ \E p \in Phis, v \in Operands : SetIncoming(p, entry, v)
    \/ \E i \in Binops \cup Calls \cup Phis, old, new \in Operands : ReplaceUse(i, old, new)

SpecReplace == Init /\ [][NextReplace]_vars

\* set_incoming and del_incoming on a Phi, nothing else.
NextIncoming ==
    \/ \E p \in Phis, block \in Blocks, v \in Operands : SetIncoming(p, block, v)
    \/ \E p \in Phis, block \in Blocks : DelIncoming(p, block)

SpecIncoming == Init /\ [][NextIncoming]_vars

\* Blocks constructed with any of the proposed names are added to the
\* function and removed from it.
NextRename ==
    \/ \E b \in Ordinary : AddBlock(b)
    \/ \E b \in Ordinary : RemoveBlock(b)

SpecRename == InitNames /\ [][NextRename]_vars

\* A front end that fills two modules with the function and a global
\* variable.
NextModule ==
    \/ \E m \in Modules, f \in {Fn} \cup Variables : AddFunction(m, f)
    \/ \E m \in Modules, v \in Variables \cup Parameters : AddVariable(m, v)

SpecModule == InitModule /\ [][NextModule]_vars

\* A pass that places a value and a Phi in the entry, gives the Phi incoming
\* values for the entry, the epilog and a block that is still empty,
\* registers a parameter, and queries dominance between the instructions,
\* the parameter and a global variable.
DomBlocks == {entry, epiloog, Host}
DomInsts == {<<"Const", 1>>, <<"Phi", 1>>}

NextDom ==
    \/ \E i \in DomInsts : AddInstruction(entry, i)
    \/ \E p \in Phis, block \in DomBlocks, v \in DomInsts : SetIncoming(p, block, v)
    \/ \E p \in Parameters : p \notin Range(arguments[Fn]) /\ AddParameter(p)
    \/ \E x, y \in DomInsts \cup Parameters \cup Variables : Dominates(x, y)

SpecDom == Init /\ [][NextDom]_vars

\* A pass that appends, inserts and removes two values and a Jump in the
\* entry and queries dominance between them.
PosInsts == {<<"Const", 1>>, <<"Const", 2>>, <<"Jump", 1>>}

NextPos ==
    \/ NewJump(<<"Jump", 1>>, epiloog)
    \/ \E i \in PosInsts : AddInstruction(entry, i)
    \/ \E i \in PosInsts, before \in PosInsts \cup {None} : InsertInstruction(entry, i, before)
    \/ \E i \in PosInsts : RemoveInstruction(entry, i)
    \/ \E x, y \in PosInsts : Dominates(x, y)

SpecPos == Init /\ [][NextPos]_vars

\* A builder that ends the entry and one more block with Jumps to either of
\* them, retargets the Jumps and reads function.blocks: the graphs have
\* self-loops and a cycle through the entry.
WalkBlocks == {entry, <<"B", 1>>}
WalkJumps == {<<"Jump", 1>>, <<"Jump", 2>>}

NextWalk ==
    \/ \E j \in WalkJumps, target \in WalkBlocks : NewJump(j, target)
    \/ \E b \in WalkBlocks, j \in WalkJumps : AddInstruction(b, j)
    \/ \E j \in WalkJumps, block \in WalkBlocks : SetTarget(j, block)
    \/ GetBlocks

SpecWalk == Init /\ [][NextWalk]_vars

\* ---------------------------------------------------------------- claims
\* The positions of instruction i that hold value v: named slots, Call
\* arguments and Phi inputs.
SlotsHolding(h, i, v) == {k \in DOMAIN h.var_map[i] : h.var_map[i][k] = v}
ArgsHolding(h, i, v) == {k \in DOMAIN h.arguments[i] : h.arguments[i][k] = v}
InputsHolding(h, i, v) == {p[1] : p \in {q \in Range(h.inputs[i]) : q[2] = v}}

\* C1: in every state reached by any sequence of operand setters, add_use,
\* del_use, replace_use, set_incoming, del_incoming, replace_by and
\* remove_from_block, failed calls included, a value is in an instruction's
\* uses exactly when the instruction is in the value's used_by.
C1_UsesMirrorUsedBy ==
    /\ \A i \in Insts, v \in Values : v \in uses[i] <=> i \in used_by[v]
    /\ \A v \in Values : use_count(Heap, v) = Cardinality({i \in Insts : v \in uses[i]})

\* A replace_use on the Binop has raised part-way: a slot holds a value that
\* is not in uses, while another value is.
C1_Witness ==
    /\ last.op = "replace_use"
    /\ ~last.ok
    /\ Kind(last.i) = "Binop"
    /\ uses[last.i] # {}
    /\ \E k \in DOMAIN var_map[last.i] : var_map[last.i][k] \notin uses[last.i]

\* The blocks reachable from the blocks of S along successor edges.
RECURSIVE ReachableFrom(_, _)
ReachableFrom(h, S) ==
    LET T == S \cup UNION {Range(Successors(h, b)) : b \in S}
    IN  IF T = S THEN S ELSE ReachableFrom(h, T)

\* C11: after any sequence of target assignments, change_target and delete
\* calls, a terminator t is in the _preds of block B exactly when B is one of
\* the targets in t's block_map.
C11_PredsMirrorTargets ==
    \A t \in LastStatements, B \in Blocks :
        t \in preds[B] <=> B \in Range(Targets(Heap, t))

\* C12: for blocks A and B added to the function and reachable from entry,
\* every block having its successors defined, B.Predecessors can be read and
\* holds A exactly when A.Successors holds B.
C12_PredecessorsMirrorSuccessors ==
    (\A b \in Blocks : SuccessorsDefined(Heap, b)) =>
        \A A, B \in ReachableFrom(Heap, {entry}) :
            (function[A] # None /\ function[B] # None) =>
                LET h == get_predecessors(Heap, B)
                IN  /\ h.ok
                    /\ A \in PredecessorSet(h, B) <=> B \in Range(Successors(Heap, A))

\* C13: right after function.remove_block(A), the Predecessors of no block
\* of the function hold A.
C13_RemovedBlockNotPredecessor ==
    (last.op = "remove_block" /\ function[last.i] = None) =>
        \A B \in Blocks :
            function[B] # None =>
                LET h == get_predecessors(Heap, B)
                IN  h.ok => last.i \notin PredecessorSet(h, B)

\* C14: whatever blocks have been added and removed (never entry or epilog),
\* a read of function.blocks returns a list that starts with entry, ends with
\* epilog and holds each of the two once.
C14_EntryFirstEpilogLast ==
    LET h == get_blocks(Heap)
    IN  /\ h.ok
        /\ h.ret[1] = entry
        /\ h.ret[Len(h.ret)] = epiloog
        /\ Cardinality({k \in DOMAIN h.ret : h.ret[k] = entry}) = 1
        /\ Cardinality({k \in DOMAIN h.ret : h.ret[k] = epiloog}) = 1

\* function.blocks has just been computed and lists, between entry and
\* epilog, a block that is not (or no longer) a block of the function.
C14_Witness ==
    /\ last.op = "blocks"
    /\ last.ok
    /\ blocks = <<last.ret>>
    /\ Len(last.ret) >= 3
    /\ \E k \in 2..(Len(last.ret) - 1) : function[last.ret[k]] = None

\* C15: in every state reached by adding instructions and terminators to the
\* blocks, entry.Successors can be read and holds epilog.
C15_EntryReachesEpilog ==
    /\ SuccessorsDefined(Heap, entry)
    /\ epiloog \in Range(Successors(Heap, entry))

\* C16: for every block, whatever its last instruction, Successors can be
\* read and is the list of the targets of the last instruction followed by
\* extra_successors; for a block without instructions it is extra_successors.
C16_SuccessorsOfEveryBlock ==
    \A b \in Blocks :
        /\ SuccessorsDefined(Heap, b)
        /\ Successors(Heap, b) =
               IF instructions[b] = <<>> THEN extra_successors[b]
               ELSE [k \in DOMAIN block_map[LastInstruction(Heap, b)] |->
                        block_map[LastInstruction(Heap, b)][k][2]] \o extra_successors[b]

\* C17: after any sequence of add_block, add_instruction and
\* insert_instruction, two distinct Values in the sequences of blocks owned
\* by the function have different names.
C17_ValueNamesDiffer ==
    \A v1, v2 \in Values :
        (/\ v1 # v2
         /\ \E b \in Blocks : function[b] = Fn /\ v1 \in Range(instructions[b])
         /\ \E b \in Blocks : function[b] = Fn /\ v2 \in Range(instructions[b])) =>
            name[v1] # name[v2]

\* C18: after any sequence of add_block calls with any proposed names, the
\* blocks added have pairwise different names, and defined_names maps the
\* name of each to that block and to nothing else.
C18_BlockNamesDiffer ==
    /\ \A b1, b2 \in Blocks :
           (b1 # b2 /\ function[b1] = Fn /\ function[b2] = Fn) => name[b1] # name[b2]
    /\ \A b \in Blocks :
           function[b] = Fn =>
               \A p \in defined_names : p[1] = name[b] <=> p = <<name[b], b>>
    /\ \A b \in Blocks : function[b] = Fn => name[b] \in DefinedKeys(Heap)

\* Every ordinary block has been added, and one proposed as 'entry' bears a
\* name made from 'entry' and a counter.
C18_Witness ==
    /\ last.op = "add_block"
    /\ \A b \in Ordinary : function[b] = Fn
    /\ \E b \in Ordinary : Len(name[b]) >= 2 /\ name[b][1] = "entry"
    /\ name[entry] = <<"entry">>

\* C19: after any sequence of append, insert, remove and index on the
\* FastList of a block, index(x) returns the position x has now (of its
\* first occurrence), every cached position is the present one, and right
\* after an append, insert or remove the cache is empty.
C19_IndexIsCurrentPosition ==
    /\ \A b \in Blocks : \A x \in Range(instructions[b]) :
           LET h == index(Heap, b, x)
           IN  /\ h.ok
               /\ h.ret = <<IndexOf(instructions[b], x) - 1>>
               /\ instructions[b][h.ret[1] + 1] = x
    /\ \A b \in Blocks : \A p \in index_map[b] :
           /\ p[1] \in Range(instructions[b])
           /\ p[2] = IndexOf(instructions[b], p[1]) - 1
    /\ last.op \in {"append", "insert", "remove"} => index_map[Host] = {}

\* index has answered from a list of three items with a position past the
\* front, two positions being cached.
C19_Witness ==
    /\ last.op = "index"
    /\ last.ok
    /\ Len(instructions[Host]) = 3
    /\ last.ret[1] >= 1
    /\ Cardinality(index_map[Host]) = 2

\* C20: after any sequence of operand assignments and replace_use calls, the
\* uses of an instruction with named operand slots are the values bound in
\* its var_map.
C20_UsesEqualBoundValues ==
    \A i \in Binops \cap made : uses[i] = Range(var_map[i])

\* C21: add_use(v) on an instruction whose uses already hold v raises.
C21_AddUseTwiceFails ==
    \A i \in Binops \cap made : \A v \in uses[i] :
        ~add_use(Heap, i, v).ok

\* C22: replace_use(old, new) on a Binop, a Call or a Phi that does not
\* reference old raises, and leaves the operands of the instruction, its
\* uses and the used_by of old and of new as they were.
C22_ReplaceUseOfUnreferencedFails ==
    \A i \in (Binops \cup Calls \cup Phis) \cap made : \A old, new \in Operands :
        LET refs == (IF i \in Binops THEN Range(var_map[i]) ELSE {})
                    \cup (IF i \in Calls THEN Range(arguments[i]) ELSE {})
                    \cup (IF i \in Phis THEN {p[2] : p \in Range(inputs[i])} ELSE {})
            h == replace_use(Heap, i, old, new)
        IN  old \notin refs =>
                /\ ~h.ok
                /\ h.var_map[i] = var_map[i]
                /\ i \in Calls => h.arguments[i] = arguments[i]
                /\ i \in Phis => h.inputs[i] = inputs[i]
                /\ h.uses[i] = uses[i]
                /\ h.used_by[old] = used_by[old]
                /\ h.used_by[new] = used_by[new]

\* A replace_use on the Phi raised, and the Phi still has an incoming value
\* and uses exactly its incoming values: no binding was touched before the
\* exception, so the value to replace was not referenced.
C22_Witness ==
    /\ last.op = "replace_use"
    /\ ~last.ok
    /\ last.i \in Phis
    /\ inputs[last.i] # <<>>
    /\ uses[last.i] = {p[2] : p \in Range(inputs[last.i])}
    /\ \A v \in uses[last.i] : last.i \in used_by[v]

\* C23: right after Binop(v, '+', v, ...) is constructed with the same value
\* as both operands, the use_count of that value is 2.
C23_UseCountOfDoubleOperand ==
    \A i \in Binops : \A v \in Operands :
        (last.op = "Binop" /\ last.ok /\ last.i = i /\ var_map[i] = <<v, v>>)
            => use_count(Heap, v) = 2

\* C24: on a Phi whose incoming map is {A: v1, B: v2} with v1 # v2,
\* del_incoming(A) returns and leaves the map {B: v2}, the Phi out of
\* v1.used_by and the Phi in v2.used_by.
C24_DelIncomingKeepsOtherUse ==
    \A p \in Phis : \A A, B \in Blocks : \A v1, v2 \in Operands :
        (/\ A # B
         /\ v1 # v2
         /\ Len(inputs[p]) = 2
         /\ Range(inputs[p]) = {<<A, v1>>, <<B, v2>>})
            => LET h == del_incoming(Heap, p, A)
               IN  /\ h.ok
                   /\ h.inputs[p] = <<<<B, v2>>>>
                   /\ p \notin h.used_by[v1]
                   /\ p \in h.used_by[v2]

\* C25: when a terminator that is in a block's sequence is removed from it,
\* by Block.remove_instruction or by remove_from_block, its target map is
\* empty afterwards and it is in the predecessor set of no block.
C25_RemovedTerminatorHasNoTargets ==
    \A b \in Blocks : \A t \in Jumps \cap made :
        (t \in Range(instructions[b]) /\ parent[t] = b) =>
            \A h \in {remove_instruction(Heap, b, t), remove_from_block(Heap, t, <<>>)} :
                /\ h.ok
                /\ h.block_map[t] = <<>>
                /\ \A c \in Blocks : t \notin h.preds[c]

\* C29: replaceInstruction(i1, i2) on a block, for an instruction i1 of its
\* sequence and an i2 that is in no sequence, returns; i2 is then at the
\* position i1 had with the block as its parent, i1 has no parent and is in
\* no predecessor set, and the other instructions are where they were.
C29_ReplaceInstructionCompletes ==
    \A b \in Blocks : \A i1, i2 \in Placed \cap made :
        (/\ i1 \in Range(instructions[b])
         /\ parent[i1] = b
         /\ i1 # i2
         /\ InNoSequence(i2))
            => LET idx == IndexOf(instructions[b], i1)
                   h == replaceInstruction(Heap, b, i1, i2)
               IN  /\ h.ok
                   /\ h.instructions[b] = [instructions[b] EXCEPT ![idx] = i2]
                   /\ h.parent[i2] = b
                   /\ h.parent[i1] = None
                   /\ \A c \in Blocks : i1 \notin h.preds[c]
                   /\ \A x \in Range(h.instructions[b]) :
                          index(h, b, x).ret = <<IndexOf(h.instructions[b], x) - 1>>

\* C28: once remove_block(b) has returned, a new block that proposes the
\* name b has keeps that name when it is added: the entry that b left in
\* the name table does not rename it.
C28_RemovedBlockFreesName ==
    \A b, c \in Ordinary :
        (/\ last.op = "remove_block" /\ last.ok /\ last.i = b
         /\ <<name[b], b>> \in defined_names
         /\ c # b
         /\ function[c] = None
         /\ \A p \in defined_names : p[2] # c
         /\ name[c] = name[b])
            => LET h == add_block(Heap, c)
               IN  h.ok /\ h.name[c] = name[b]

\* How often x is in the list s.
Occurrences(s, x) == Cardinality({k \in DOMAIN s : s[k] = x})

\* C27: after any sequence of add_function and add_variable calls on the
\* modules (and the construction of the function with a module), the
\* function and every variable is in the list of at most one module, is
\* there once, and has that module as its module back-reference.
C27_OneModuleOwnsEach ==
    \A x \in {Fn} \cup Variables :
        LET lists == [m \in Modules |-> IF x = Fn THEN functions[m] ELSE variables[m]]
            owners == {m \in Modules : x \in Range(lists[m])}
        IN  /\ Cardinality(owners) <= 1
            /\ \A m \in owners : Occurrences(lists[m], x) = 1 /\ module[x] = m

\* C26: no instruction of the function dominates itself: for an instruction
\* in a block, a registered Parameter or a global Variable x (a Phi that has
\* itself as an incoming value included), x.dominates(x) does not return
\* True.
C26_NoInstructionDominatesItself ==
    \A x \in DomInsts \cup Parameters \cup Variables :
        (\/ parent[x] # None
         \/ x \in Range(arguments[Fn])
         \/ x \in Variables)
            => LET h == dominates(Heap, x, x)
               IN  ~(h.ok /\ h.ret = <<TRUE>>)

\* The outcome of a query: whether it returned, and what.
Outcome(h) == <<h.ok, IF h.ok THEN h.ret ELSE <<>>>>

\* C30 as stated: for self neither a Parameter nor a Variable and other a
\* Phi, self.dominates(other) has the outcome of self.dominates(last
\* instruction of P) for every block P whose incoming value in other is
\* self, and raises when self is the incoming value for no block.
C30_PhiQueryFollowsIncomingBlock ==
    \A self \in DomInsts, other \in Phis :
        LET ks == {k \in DOMAIN inputs[other] : inputs[other][k][2] = self}
            h == dominates(Heap, self, other)
        IN  /\ \A k \in ks :
                   Outcome(h) = Outcome(dominates(Heap, self,
                                    LastInstruction(Heap, inputs[other][k][1])))
            /\ ks = {} => ~h.ok

\* C30, amended: the block P is the first one, in the order of the keys of
\* other.inputs, whose incoming value is self.
C30_PhiQueryFollowsFirstIncomingBlock ==
    \A self \in DomInsts, other \in Phis :
        LET ks == {k \in DOMAIN inputs[other] : inputs[other][k][2] = self}
            h == dominates(Heap, self, other)
        IN  /\ \A k \in ks :
                   (\A j \in ks : k <= j) =>
                       Outcome(h) = Outcome(dominates(Heap, self,
                                        LastInstruction(Heap, inputs[other][k][1])))
            /\ ks = {} => ~h.ok

\* A value that is the incoming value of the Phi for two blocks was asked
\* whether it dominates the Phi, and the answer was True.
C30_Witness ==
    /\ last.op = "dominates_phi"
    /\ last.ok
    /\ last.ret = <<TRUE>>
    /\ last.i = <<"Const", 1>>
    /\ Cardinality({k \in DOMAIN inputs[<<"Phi", 1>>] :
                       inputs[<<"Phi", 1>>][k][2] = last.i}) = 2

\* C31: for two instructions in the sequence of the same block, self neither
\* a Parameter nor a Variable and other not a Phi, self.dominates(other)
\* returns, and returns True exactly when self is at a smaller position of
\* the sequence, as it is now, than other.
C31_SameBlockDominanceIsPosition ==
    \A b \in Blocks : \A self, other \in PosInsts :
        (/\ parent[self] = b /\ parent[other] = b
         /\ self \in Range(instructions[b]) /\ other \in Range(instructions[b]))
            => LET h == dominates(Heap, self, other)
               IN  /\ h.ok
                   /\ h.ret = <<IndexOf(instructions[b], self) < IndexOf(instructions[b], other)>>

\* The second of three instructions of the entry was asked whether it
\* dominates another one, and the answer was True.
C31_Witness ==
    /\ last.op = "dominates"
    /\ last.ok
    /\ last.ret = <<TRUE>>
    /\ Len(instructions[entry]) = 3
    /\ instructions[entry][2] = last.i
    /\ parent[last.i] = entry

\* C32: change_target(old, new) on a terminator returns; every role that
\* named old names new afterwards and the other roles are as they were; the
\* terminator is in new's _preds and, when old is not new, no longer in
\* old's. A CJump whose two roles both name old is included.
C32_ChangeTargetRebindsEveryRole ==
    \A t \in Branches \cap made : \A old, new \in Ordinary :
        old \in Range(Targets(Heap, t))
            => LET h == change_target(Heap, t, old, new)
               IN  /\ h.ok
                   /\ Len(h.block_map[t]) = Len(block_map[t])
                   /\ \A k \in DOMAIN block_map[t] :
                          h.block_map[t][k] =
                              IF block_map[t][k][2] = old
                              THEN <<block_map[t][k][1], new>>
                              ELSE block_map[t][k]
                   /\ t \in h.preds[new]
                   /\ old # new => t \notin h.preds[old]

\* C33: on a graph whose blocks that are not empty all end in a terminator,
\* cycles and self-loops included, the walk that recomputes function.blocks
\* ends, pops every block reachable from the entry from its worklist once
\* and no other block, and collects the same blocks, each once.
C33_WalkVisitsReachableOnce ==
    (\A b \in Blocks : SuccessorsDefined(Heap, b)) =>
        LET bbs == get_blocks_walk(Heap, <<entry>>, <<entry>>)
            popped == get_blocks_popped(Heap, <<entry>>, <<entry>>, <<>>)
        IN  /\ Range(popped) = ReachableFrom(Heap, {entry})
            /\ Len(popped) = Cardinality(Range(popped))
            /\ Range(bbs) = Range(popped)
            /\ Len(bbs) = Cardinality(Range(bbs))

\* function.blocks has just been recomputed on a graph where the entry jumps
\* to a block that jumps back to the entry.
C33_Witness ==
    /\ last.op = "blocks"
    /\ last.ok
    /\ blocks = <<last.ret>>
    /\ last.ret = <<entry, <<"B", 1>>, epiloog>>
    /\ instructions[entry] # <<>>
    /\ instructions[<<"B", 1>>] # <<>>
    /\ Targets(Heap, LastInstruction(Heap, entry)) = <<<<"B", 1>>>>
    /\ Targets(Heap, LastInstruction(Heap, <<"B", 1>>)) = <<entry>>

\* C34: when add_instruction(i) on the entry raises because the entry ends
\* in a terminator, the parent of i is what it was before the call.
C34_FailedAddKeepsParent ==
    \A b \in {entry} : \A i \in Placed \cap made :
        (InNoSequence(i) /\ IsLastStatement(LastInstruction(Heap, b)))
            => LET h == add_instruction(Heap, b, i)
               IN  ~h.ok /\ h.parent[i] = parent[i]

\* C35: after any sequence of add_block, remove_block and target
\* assignments of terminators, every block that a read of function.blocks
\* returns has the function as its function attribute.
C35_BlocksBelongToFunction ==
    LET h == get_blocks(Heap)
    IN  h.ok => \A b \in Range(h.ret) : h.function[b] = Fn

\* C2: after any sequence of add_instruction, insert_instruction,
\* remove_instruction and replaceInstruction, no instruction of a block other
\* than the last of its sequence is a LastStatement.
C2_TerminatorOnlyLast ==
    \A b \in Blocks : \A k \in 1..(Len(instructions[b]) - 1) :
        ~IsLastStatement(instructions[b][k])

\* C3: on a block whose last instruction is a LastStatement,
\* add_instruction(i) raises and leaves the block's sequence as it was.
C3_AddAfterTerminatorFails ==
    \A b \in Blocks, i \in Insts \cap made :
        IsLastStatement(LastInstruction(Heap, b)) =>
            LET h == add_instruction(Heap, b, i)
            IN  /\ ~h.ok
                /\ h.instructions = instructions
                /\ h.index_map = index_map

\* add_instruction has raised on the entry block, which ends with a Jump and
\* does not hold the instruction.
C3_Witness ==
    /\ last.op = "add_instruction"
    /\ ~last.ok
    /\ Kind(LastInstruction(Heap, entry)) = "Jump"
    /\ InNoSequence(last.i)

\* C4: whenever function.blocks is read, after any sequence of add_block,
\* remove_block, add_instruction and insert_instruction of terminators,
\* retargeting and earlier reads, it returns each block reachable from entry
\* along successor edges exactly once, the epilog included.
C4_BlocksAreTheReachableBlocks ==
    (\A b \in Blocks : SuccessorsDefined(Heap, b)) =>
        LET h == get_blocks(Heap)
        IN  /\ h.ok
            /\ Range(h.ret) = ReachableFrom(Heap, {entry}) \cup {epiloog}
            /\ Len(h.ret) = Cardinality(Range(h.ret))

\* C5: for values v and n, n different from v, v.replace_by(n) completes;
\* afterwards v.use_count is 0 and every instruction that used v holds n in
\* every named slot, argument position and incoming block where it held v,
\* and is in n.used_by.
C5_ReplaceByReplacesEveryUse ==
    \A v, n \in Operands : v # n =>
        \A order \in Orders(used_by[v]) :
            LET h == replace_by(Heap, v, n, order)
            IN  /\ h.ok
                /\ use_count(h, v) = 0
                /\ \A i \in used_by[v] :
                       /\ i \in h.used_by[n]
                       /\ SlotsHolding(Heap, i, v) \subseteq SlotsHolding(h, i, n)
                       /\ ArgsHolding(Heap, i, v) \subseteq ArgsHolding(h, i, n)
                       /\ InputsHolding(Heap, i, v) \subseteq InputsHolding(h, i, n)

\* C6: for an instruction with named roles where old holds at least one role
\* and new differs from old, replace_use(old, new) binds every role that held
\* old to new, leaves the other roles alone, takes the instruction out of
\* old.used_by and puts it in new.used_by.
C6_ReplaceUseRebindsEveryRole ==
    \A i \in Binops \cap made, old, new \in Operands :
        (old # new /\ old \in Range(var_map[i])) =>
            LET h == replace_use(Heap, i, old, new)
            IN  /\ \A k \in DOMAIN var_map[i] :
                       h.var_map[i][k] = IF var_map[i][k] = old THEN new
                                         ELSE var_map[i][k]
                /\ i \notin h.used_by[old]
                /\ i \in h.used_by[new]

\* C7: for an instruction i attached to a block b, i.remove_from_block()
\* leaves i.uses empty, i in the used_by of no value, i out of b's sequence
\* and i.parent cleared.
C7_RemoveFromBlockDetaches ==
    \A i \in Insts \cap made :
        (parent[i] # None /\ i \in Range(instructions[parent[i]])) =>
            \A order \in Orders(uses[i]) :
                LET h == remove_from_block(Heap, i, order)
                IN  /\ h.ok
                    /\ h.uses[i] = {}
                    /\ \A v \in Values : i \notin h.used_by[v]
                    /\ i \notin Range(h.instructions[parent[i]])
                    /\ h.parent[i] = None

\* A Phi with incoming values has been taken out of its block by
\* remove_from_block.
C7_Witness ==
    /\ last.op = "remove_from_block"
    /\ last.ok
    /\ Kind(last.i) = "Phi"
    /\ inputs[last.i] # <<>>
    /\ uses[last.i] = {}
    /\ parent[last.i] = None
    /\ last.i \notin Range(instructions[Host])

C9_UsesEqualStoredValues ==
    /\ \A p \in Phis : uses[p] = {q[2] : q \in Range(inputs[p])}
    /\ \A c \in Calls \cap made : uses[c] = Range(arguments[c])

\* C10: replace_incoming(block, new_blocks), new_blocks not empty and without
\* block, on a block whose phis all have an incoming value for block: every
\* phi then has that value incoming from each block of new_blocks, has no
\* entry for block, has the value in its uses and is in the value's used_by.
C10_ReplaceIncomingKeepsUse ==
    \A block \in PredBlocks, new_blocks \in BlockLists(PredBlocks) :
        (/\ new_blocks # <<>>
         /\ block \notin Range(new_blocks)
         /\ \A phi \in Range(phis(Heap, Host)) : block \in InputBlocks(Heap, phi)) =>
            LET h == replace_incoming(Heap, Host, block, new_blocks)
            IN  /\ h.ok
                /\ \A phi \in Range(phis(Heap, Host)) :
                       LET value == get_value(Heap, phi, block)
                       IN  /\ \A b2 \in Range(new_blocks) : get_value(h, phi, b2) = value
                           /\ block \notin InputBlocks(h, phi)
                           /\ value \in h.uses[phi]
                           /\ phi \in h.used_by[value]

====
